---- MODULE Spec2Model ----
(***************************************************************************)
(* MediTrack AI: the conversation state machine of app.py and the          *)
(* rule-based engine of agent.py (MediTrackAgent).                         *)
(*                                                                         *)
(* A text is a sequence of atoms.  Text typed by the user is spelled out   *)
(* character by character, because the code inspects it by character       *)
(* (str.lower, substring search).  A literal of the program that is only   *)
(* ever copied is a one-atom text.  The empty text <<>> is Python's ""     *)
(* and, like "", is falsy; None is modelled by the same falsy value.       *)
(***************************************************************************)
EXTENDS Naturals, Sequences, FiniteSets

VARIABLES
    api_key,                   \* whether os.getenv("GOOGLE_API_KEY") gave a key
    session_keys,              \* the keys present in st.session_state
    messages,                  \* st.session_state.messages
    stage,                     \* st.session_state.stage
    log_data,                  \* st.session_state.log_data
    symptoms_to_query,         \* st.session_state.symptoms_to_query
    user_input,                \* st.session_state.user_input
    current_question_context,  \* agent.current_question_context of the last script run
    provider_calls,            \* the generate_content calls of the last script run
    last,                      \* which widget drove the last script run, the stage it
                               \* found, and the line at which the run ended
    cuts,                      \* the script runs of this session that Streamlit ended early
    text,                      \* argument of a direct check_for_critical_symptoms call
    scans                      \* results of the direct calls on text, in call order

vars == <<api_key, session_keys, messages, stage, log_data, symptoms_to_query, user_input,
          current_question_context, provider_calls, last, cuts, text, scans>>

----------------------------------------------------------------------------
\* Bounds of the model.

\* user turns explored in one session (between two resets)
MaxTurns == 4
\* script runs that Streamlit ends early in one session
MaxCuts == 1
\* direct calls of the safety filter on one text
MaxScans == 2
\* length of the filler put before and after a phrase in a scanned text
MaxPad == 1

----------------------------------------------------------------------------
\* Text primitives.

None == <<>>

UpperLetters ==
    <<"A", "B", "C", "D", "E", "F", "G", "H", "I", "J", "K", "L", "M",
      "N", "O", "P", "Q", "R", "S", "T", "U", "V", "W", "X", "Y", "Z">>

LowerLetters ==
    <<"a", "b", "c", "d", "e", "f", "g", "h", "i", "j", "k", "l", "m",
      "n", "o", "p", "q", "r", "s", "t", "u", "v", "w", "x", "y", "z">>

\* str.lower on one character
LowerChar(c) ==
    IF \E i \in DOMAIN UpperLetters : UpperLetters[i] = c
    THEN LowerLetters[CHOOSE i \in DOMAIN UpperLetters : UpperLetters[i] = c]
    ELSE c

\* str.upper on one character
UpperChar(c) ==
    IF \E i \in DOMAIN LowerLetters : LowerLetters[i] = c
    THEN UpperLetters[CHOOSE i \in DOMAIN LowerLetters : LowerLetters[i] = c]
    ELSE c

\* a lower() that leaves the capitals as they are
lower_keeps_case(t) == t

\* text.lower()
lower(t) == [i \in DOMAIN t |-> LowerChar(t[i])]

\* text.upper()
upper(t) == [i \in DOMAIN t |-> UpperChar(t[i])]

\* sub in t
contains(sub, t) ==
    \E i \in 0..Len(t) :
        /\ i + Len(sub) <= Len(t)
        /\ SubSeq(t, i + 1, i + Len(sub)) = sub

----------------------------------------------------------------------------
\* Rule-based engine components (MediTrackAgent.__init__).

CRITICAL_SYMPTOMS ==
    { <<"c", "h", "e", "s", "t", " ", "p", "a", "i", "n">>,
      <<"d", "i", "f", "f", "i", "c", "u", "l", "t", "y", " ", "b", "r", "e", "a", "t", "h", "i", "n", "g">>,
      <<"t", "r", "o", "u", "b", "l", "e", " ", "b", "r", "e", "a", "t", "h", "i", "n", "g">>,
      <<"c", "a", "n", "'", "t", " ", "b", "r", "e", "a", "t", "h", "e">>,
      <<"s", "e", "v", "e", "r", "e", " ", "p", "a", "i", "n">>,
      <<"s", "l", "u", "r", "r", "e", "d", " ", "s", "p", "e", "e", "c", "h">>,
      <<"n", "u", "m", "b", "n", "e", "s", "s">>,
      <<"f", "a", "c", "e", " ", "d", "r", "o", "o", "p", "i", "n", "g">>,
      <<"u", "n", "c", "o", "n", "s", "c", "i", "o", "u", "s">>,
      <<"l", "o", "s", "s", " ", "o", "f", " ", "c", "o", "n", "s", "c", "i", "o", "u", "s", "n", "e", "s", "s">>,
      <<"s", "e", "v", "e", "r", "e", " ", "b", "l", "e", "e", "d", "i", "n", "g">>,
      <<"u", "n", "c", "o", "n", "t", "r", "o", "l", "l", "e", "d", " ", "b", "l", "e", "e", "d", "i", "n", "g">> }

\* the keys of SYMPTOM_QUESTIONS in the order the dict declares them
SYMPTOM_KEYS == <<"headache", "fever", "cough">>

\* the characters of each key of SYMPTOM_QUESTIONS
SYMPTOM_SPELLING ==
    [ headache |-> <<"h", "e", "a", "d", "a", "c", "h", "e">>,
      fever    |-> <<"f", "e", "v", "e", "r">>,
      cough    |-> <<"c", "o", "u", "g", "h">> ]

SYMPTOM_QUESTIONS ==
    [ headache |-> << <<"On a scale of 1 to 10, how severe is it?">>,
                      <<"Where is the pain located?">> >>,
      fever    |-> << <<"Have you measured your temperature? If so, what is it?">>,
                      <<"How long have you felt feverish?">> >>,
      cough    |-> << <<"Is it a dry cough, or are you coughing anything up?">>,
                      <<"How frequently are you coughing?">> >> ]

----------------------------------------------------------------------------
\* Fixed texts of the program.

GreetingMessage ==
    <<"Hi! I'm MediTrack AI. Let's log your health symptoms. How are you feeling today?">>

ClarificationPrompt ==
    <<"I see. Could you please tell me more? Mention specific symptoms like 'headache', 'fever', etc., so I can ask relevant follow-up questions.">>

summary_header == <<"### Your Health Log Summary">>

advice_header == <<"### General Wellness Advice">>

ClosingMessage ==
    <<"Your session is complete. You can copy the summary above for your records. Stay well!">>

ConcludedMessage ==
    <<"This session has concluded. To start a new health log, please click the button below.">>

NoTextFallback == <<"The model could not generate a response for this query.">>

ErrorFallback == <<"An error occurred while trying to generate a response.">>

Assistant(content) == [role |-> "assistant", content |-> content]

User(content) == [role |-> "user", content |-> content]

----------------------------------------------------------------------------
\* MediTrackAgent.

\* RULE-BASED ENGINE: checks user input for critical keywords
check_for_critical_symptoms(t) ==
    \E keyword \in CRITICAL_SYMPTOMS : contains(keyword, lower(t))

get_critical_symptom_response ==
    <<"**This sounds potentially serious.** Based on your description, it is highly recommended that you **contact a medical professional or emergency services immediately.** This chat will now end to ensure your safety.">>

\* the number of places of t at which sub occurs
occurrences(sub, t) ==
    Cardinality({i \in 0..Len(t) :
                    /\ i + Len(sub) <= Len(t)
                    /\ SubSeq(t, i + 1, i + Len(sub)) = sub})

\* a detection that lists a symptom once per place it is mentioned at
detect_each_mention(t) ==
    LET times(s) == [i \in 1..occurrences(SYMPTOM_SPELLING[s], lower(t)) |-> s]
    IN  times(SYMPTOM_KEYS[1]) \o times(SYMPTOM_KEYS[2]) \o times(SYMPTOM_KEYS[3])

\* [s for s in self.SYMPTOM_QUESTIONS if s in text.lower()]
detect(t) ==
    LET present(s) == contains(SYMPTOM_SPELLING[s], lower(t))
    IN  SelectSeq(SYMPTOM_KEYS, present)

\* [(s, q) for s in detected for q in self.SYMPTOM_QUESTIONS[s]]
RECURSIVE flatten(_)
flatten(detected) ==
    IF detected = <<>> THEN <<>>
    ELSE LET s == Head(detected)
         IN  [i \in DOMAIN SYMPTOM_QUESTIONS[s] |-> <<s, SYMPTOM_QUESTIONS[s][i]>>]
               \o flatten(Tail(detected))

\* the session after log_initial_symptoms(t)
log_initial_symptoms(s, t) ==
    LET detected == detect(t)
    IN  [s EXCEPT !.log_data = [@ EXCEPT !.initial_symptoms = detected],
                  !.symptoms_to_query = flatten(detected)]

\* the session after ask_next_question(), and what the call returns
ask_next_question(s) ==
    IF s.symptoms_to_query # <<>>
    THEN [s |-> [s EXCEPT !.symptoms_to_query = Tail(@),
                          !.current_question_context = Head(s.symptoms_to_query)],
          response |-> Head(s.symptoms_to_query)[2]]
    ELSE [s |-> s, response |-> None]

\* the session after log_detail(answer)
log_detail(s, answer) ==
    IF s.current_question_context # None
    THEN LET symptom  == s.current_question_context[1]
             question == s.current_question_context[2]
             details  == s.log_data.details
             old      == IF symptom \in DOMAIN details THEN details[symptom] ELSE <<>>
             entry    == [question |-> question, answer |-> answer]
         IN  [s EXCEPT !.log_data = [@ EXCEPT !.details =
                 [k \in DOMAIN details \cup {symptom} |->
                     IF k = symptom THEN Append(old, entry) ELSE details[k]]]]
    ELSE s

\* What self.model.generate_content(prompt) can do: raise, return a response
\* without a text attribute, or return a response with a text (possibly "").
ProviderOutcomes ==
    { [kind |-> "raises"],
      [kind |-> "no_text"],
      [kind |-> "text", text |-> <<>>],
      [kind |-> "text", text |-> <<"* generated text">>] }

\* LLM INTEGRATION: helper function to call the Gemini API
call_gemini(prompt, outcome) ==
    CASE outcome.kind = "raises"  -> ErrorFallback
      [] outcome.kind = "no_text" -> NoTextFallback
      [] outcome.kind = "text"    -> outcome.text

\* the prompt of generate_summary: the instructions and the whole log
summary_prompt(s) == [instructions |-> "summarize", data |-> s.log_data]

\* an advice prompt that also carries the answer just given
advice_prompt_with_answer(s) ==
    [instructions |-> "advise", data |-> Append(s.log_data.initial_symptoms, s.user_input)]

\* the prompt of generate_advice: the instructions and the initial symptoms
advice_prompt(s) == [instructions |-> "advise", data |-> s.log_data.initial_symptoms]

generate_summary(s, outcome) == call_gemini(summary_prompt(s), outcome)

generate_advice(s, outcome) == call_gemini(advice_prompt(s), outcome)

----------------------------------------------------------------------------
\* app.py: the main conversation handler.

\* display the assistant response, if there is one
display_response(s, response) ==
    IF response # None
    THEN [s EXCEPT !.messages = Append(@, Assistant(response))]
    ELSE s

\* the escalation without the assignment of the stage
critical_branch_keeps_stage(s) ==
    [s EXCEPT !.messages = Append(@, Assistant(get_critical_symptom_response))]

\* 1. critical symptom check fired
critical_branch(s) ==
    [s EXCEPT !.messages = Append(@, Assistant(get_critical_symptom_response)),
              !.stage = "done"]

\* current_stage == "greeting"
greeting_branch(s) ==
    LET asked == ask_next_question(log_initial_symptoms(s, s.user_input))
    IN  IF asked.response = None
        THEN display_response(asked.s, ClarificationPrompt)
        ELSE display_response([asked.s EXCEPT !.stage = "collecting_details"],
                              asked.response)

\* no more questions: the summary and advice sections
summary_transition(s, o1, o2) ==
    LET t       == [s EXCEPT !.stage = "summary"]
        summary == generate_summary(t, o1)
        advice  == generate_advice(t, o2)
    IN  [t EXCEPT !.provider_calls = << [prompt |-> summary_prompt(t), outcome |-> o1],
                                        [prompt |-> advice_prompt(t), outcome |-> o2] >>,
                  !.messages = @ \o << Assistant(summary_header \o <<"\n">> \o summary),
                                       Assistant(advice_header \o <<"\n">> \o advice) >>,
                  !.stage = "done"]

\* a collecting branch that runs the symptom detection on the answer again
collecting_branch_detects_again(s, o1, o2) ==
    LET asked == ask_next_question(log_detail(
                     [s EXCEPT !.log_data = [@ EXCEPT !.initial_symptoms = detect(s.user_input)]],
                     s.user_input))
    IN  IF asked.response = None
        THEN display_response(summary_transition(asked.s, o1, o2), ClosingMessage)
        ELSE display_response(asked.s, asked.response)

\* current_stage == "collecting_details"
collecting_branch(s, o1, o2) ==
    LET asked == ask_next_question(log_detail(s, s.user_input))
    IN  IF asked.response = None
        THEN display_response(summary_transition(asked.s, o1, o2), ClosingMessage)
        ELSE display_response(asked.s, asked.response)

\* current_stage == "done"
done_branch(s) == display_response(s, ConcludedMessage)

\* a handler that files the message in the log before the critical check
handle_chat_input_logs_first(s, o1, o2) ==
    IF s.user_input = None THEN s
    ELSE IF check_for_critical_symptoms(s.user_input)
         THEN critical_branch(IF s.stage = "greeting"
                              THEN log_initial_symptoms(s, s.user_input)
                              ELSE ask_next_question(s).s)
    ELSE CASE s.stage = "greeting"           -> greeting_branch(s)
           [] s.stage = "collecting_details" -> collecting_branch(s, o1, o2)
           [] s.stage = "done"               -> done_branch(s)
           [] OTHER                          -> s

\* handle_chat_input(), with the outcomes o1 and o2 of the two provider calls
handle_chat_input(s, o1, o2) ==
    IF s.user_input = None THEN s
    ELSE IF check_for_critical_symptoms(s.user_input) THEN critical_branch(s)
    ELSE CASE s.stage = "greeting"           -> greeting_branch(s)
           [] s.stage = "collecting_details" -> collecting_branch(s, o1, o2)
           [] s.stage = "done"               -> done_branch(s)
           [] OTHER                          -> s

----------------------------------------------------------------------------
\* The session-state store and the script runs.

Session ==
    [session_keys |-> session_keys, messages |-> messages, stage |-> stage, log_data |-> log_data,
     symptoms_to_query |-> symptoms_to_query, user_input |-> user_input,
     current_question_context |-> current_question_context,
     provider_calls |-> provider_calls]

\* MediTrackAgent(): a new agent object over the stored session
new_agent(s) == [s EXCEPT !.current_question_context = None, !.provider_calls = <<>>]

\* st.session_state.user_input = prompt
submitted(s, prompt) ==
    [s EXCEPT !.session_keys = @ \cup {"user_input"}, !.user_input = prompt]

\* the prompt is stored, shown and appended to the messages
shown(s, prompt) == [submitted(s, prompt) EXCEPT !.messages = Append(@, User(prompt))]

\* the user input field: the prompt is stored, shown and handled
chat_input(s, prompt, o1, o2) == handle_chat_input(shown(s, prompt), o1, o2)

\* Streamlit ends a running script inside its next st.* call when another
\* widget event arrives, and keeps what the run has written to
\* st.session_state.  A cut is the pair of the line of that st.* call and of
\* the session stored at that moment.

\* the cuts of the Summary transition
summary_transition_cuts(s, o1, o2) ==
    LET t  == [s EXCEPT !.stage = "summary"]
        c1 == [prompt |-> summary_prompt(t), outcome |-> o1]
        c2 == [prompt |-> advice_prompt(t), outcome |-> o2]
        called  == [t EXCEPT !.provider_calls = <<c1, c2>>]
        summary == generate_summary(t, o1)
    IN  { <<"app.py:77", t>>,
          <<"app.py:83", called>>,
          <<"app.py:89", [called EXCEPT !.messages =
                             Append(@, Assistant(summary_header \o <<"\n">> \o summary))]>> }
          \cup (IF o1.kind = "raises"
                THEN {<<"agent.py:92", [t EXCEPT !.provider_calls = <<c1>>]>>}
                ELSE {})

\* the cuts of handle_chat_input
handle_chat_input_cuts(s, o1, o2) ==
    IF s.user_input = None THEN {}
    ELSE IF check_for_critical_symptoms(s.user_input) THEN {<<"app.py:54", s>>}
    ELSE CASE s.stage = "greeting" ->
                LET asked == ask_next_question(log_initial_symptoms(s, s.user_input))
                IN  IF asked.response = None
                    THEN {<<"app.py:102", asked.s>>}
                    ELSE {<<"app.py:102", [asked.s EXCEPT !.stage = "collecting_details"]>>}
           [] s.stage = "collecting_details" ->
                LET asked == ask_next_question(log_detail(s, s.user_input))
                IN  IF asked.response = None
                    THEN summary_transition_cuts(asked.s, o1, o2)
                           \cup {<<"app.py:102", summary_transition(asked.s, o1, o2)>>}
                    ELSE {<<"app.py:102", asked.s>>}
           [] s.stage = "done" -> {<<"app.py:102", s>>}
           [] OTHER -> {}

\* the cuts of a script run in which the user has submitted a prompt
chat_input_cuts(s, prompt, o1, o2) ==
    {<<"app.py:110", submitted(s, prompt)>>}
      \cup handle_chat_input_cuts(shown(s, prompt), o1, o2)

\* what the user types in the model's sessions
UserInputs ==
    { <<"N", "o">>,
      <<"f", "e", "v", "e", "r", ",", " ", "h", "e", "a", "d", "a", "c", "h", "e">>,
      <<"C", "o", "u", "g", "h", " ", "c", "o", "u", "g", "h">>,
      <<"m", "y", " ", "C", "h", "e", "s", "t", " ", "P", "a", "i", "n">>,
      <<"h", "e", "a", "d", "a", "c", "h", "e", " ", "n", "u", "m", "b", "n", "e", "s", "s">> }

NumUserTurns == Cardinality({i \in DOMAIN messages : messages[i].role = "user"})

\* the session state after the first script run of a session
fresh_session ==
    [session_keys |-> {"log_data", "symptoms_to_query", "messages", "stage"},
     messages |-> <<Assistant(GreetingMessage)>>,
     stage |-> "greeting",
     log_data |-> [initial_symptoms |-> <<>>, details |-> <<>>],
     symptoms_to_query |-> <<>>,
     user_input |-> None,
     current_question_context |-> None,
     provider_calls |-> <<>>]

\* the stage while st.session_state has no key "stage"
Unset == "unset"

\* st.session_state when no line of the script has written to it
empty_store ==
    [session_keys |-> {},
     messages |-> <<>>,
     stage |-> Unset,
     log_data |-> [initial_symptoms |-> <<>>, details |-> <<>>],
     symptoms_to_query |-> <<>>,
     user_input |-> None,
     current_question_context |-> None,
     provider_calls |-> <<>>]

\* a script run that takes "from agent import MediTrackAgent" for done
\* whether or not the module found a key
agent_imported_without_check(key) == TRUE

\* "from agent import MediTrackAgent" succeeds: the module raises ValueError
\* when no key is configured, and the script stops at its import line
agent_imported(key) == key

\* the session state after the first script run
first_script_run(key) == IF agent_imported(key) THEN fresh_session ELSE empty_store

Init ==
    /\ api_key \in BOOLEAN
    /\ session_keys = first_script_run(api_key).session_keys
    /\ messages = first_script_run(api_key).messages
    /\ stage = first_script_run(api_key).stage
    /\ log_data = first_script_run(api_key).log_data
    /\ symptoms_to_query = first_script_run(api_key).symptoms_to_query
    /\ user_input = first_script_run(api_key).user_input
    /\ current_question_context = first_script_run(api_key).current_question_context
    /\ provider_calls = first_script_run(api_key).provider_calls
    /\ last = [op |-> "start", stage |-> first_script_run(api_key).stage, at |-> "end"]
    /\ cuts = 0
    /\ text = None
    /\ scans = <<>>

\* the script run ends with the session s
Store(s) ==
    /\ session_keys' = s.session_keys
    /\ messages' = s.messages
    /\ stage' = s.stage
    /\ log_data' = s.log_data
    /\ symptoms_to_query' = s.symptoms_to_query
    /\ user_input' = s.user_input
    /\ current_question_context' = s.current_question_context
    /\ provider_calls' = s.provider_calls

\* the run that handles prompt reaches the two provider calls
calls_provider(s, prompt) ==
    /\ s.stage = "collecting_details"
    /\ ~check_for_critical_symptoms(prompt)
    /\ s.symptoms_to_query = <<>>

\* the outcomes of the provider calls of the run that handles prompt; a run
\* that makes no call has no outcome to choose
OutcomesOf(s, prompt) ==
    IF calls_provider(s, prompt) THEN ProviderOutcomes ELSE {[kind |-> "raises"]}

\* a script run whose input field is rendered in every stage
UserTurn_in_every_stage ==
    /\ agent_imported(api_key)
    /\ NumUserTurns < MaxTurns
    /\ \E prompt \in UserInputs :
         \E o1 \in OutcomesOf(Session, prompt), o2 \in OutcomesOf(Session, prompt) :
            Store(chat_input(new_agent(Session), prompt, o1, o2))
    /\ last' = [op |-> "turn", stage |-> stage, at |-> "end"]
    /\ UNCHANGED <<api_key, cuts, text, scans>>

\* a script run in which the user has submitted a prompt
UserTurn ==
    /\ agent_imported(api_key)
    /\ stage # "done"
    /\ NumUserTurns < MaxTurns
    /\ \E prompt \in UserInputs :
         \E o1 \in OutcomesOf(Session, prompt), o2 \in OutcomesOf(Session, prompt) :
            Store(chat_input(new_agent(Session), prompt, o1, o2))
    /\ last' = [op |-> "turn", stage |-> stage, at |-> "end"]
    /\ UNCHANGED <<api_key, cuts, text, scans>>

\* a script run in which the user has submitted a prompt and which Streamlit
\* ends before its last line, for another widget event
CutTurn ==
    /\ agent_imported(api_key)
    /\ stage # "done"
    /\ NumUserTurns < MaxTurns
    /\ cuts < MaxCuts
    /\ \E prompt \in UserInputs :
         \E o1 \in OutcomesOf(Session, prompt), o2 \in OutcomesOf(Session, prompt) :
            \E cut \in chat_input_cuts(new_agent(Session), prompt, o1, o2) :
               /\ Store(cut[2])
               /\ last' = [op |-> "cut", stage |-> stage, at |-> cut[1]]
    /\ cuts' = cuts + 1
    /\ UNCHANGED <<api_key, text, scans>>

\* a reset that deletes every key but log_data
start_new_log_keeps_log(s) == [fresh_session EXCEPT !.log_data = s.log_data]

\* the session after "Start New Log": every key is deleted and the script runs again
start_new_log(s) == fresh_session

Reset ==
    /\ agent_imported(api_key)
    /\ Store(start_new_log(Session))
    /\ last' = [op |-> "reset", stage |-> stage, at |-> "end"]
    /\ cuts' = 0
    /\ UNCHANGED <<api_key, text, scans>>

Next == UserTurn \/ CutTurn \/ Reset

Spec == Init /\ [][Next]_vars

----------------------------------------------------------------------------
\* Direct calls of the safety filter on texts that carry a phrase anywhere.

PadChars == {"x", " "}

\* the fillers: every text of at most MaxPad filler characters
Pads == UNION {[1..n -> PadChars] : n \in 0..MaxPad}

\* the text with its first letter in upper case
capitalize(t) == [i \in DOMAIN t |-> IF i = 1 THEN UpperChar(t[i]) ELSE t[i]]

\* a critical keyword as written, in capitals, capitalized, and cut short at
\* either end; and the symptom names
Phrases ==
    UNION {{k, upper(k), capitalize(k), Tail(k), SubSeq(k, 1, Len(k) - 1)} :
              k \in CRITICAL_SYMPTOMS}
      \cup {SYMPTOM_SPELLING[s] : s \in DOMAIN SYMPTOM_SPELLING}

ScanTexts == {p \o ph \o q : p \in Pads, ph \in Phrases, q \in Pads}

InitScan ==
    /\ api_key = TRUE
    /\ session_keys = fresh_session.session_keys
    /\ messages = fresh_session.messages
    /\ stage = fresh_session.stage
    /\ log_data = fresh_session.log_data
    /\ symptoms_to_query = fresh_session.symptoms_to_query
    /\ user_input = fresh_session.user_input
    /\ current_question_context = fresh_session.current_question_context
    /\ provider_calls = fresh_session.provider_calls
    /\ last = [op |-> "start", stage |-> "greeting", at |-> "end"]
    /\ cuts = 0
    /\ text \in ScanTexts
    /\ scans = <<>>

\* agent.check_for_critical_symptoms(text)
Scan ==
    /\ Len(scans) < MaxScans
    /\ scans' = Append(scans, check_for_critical_symptoms(text))
    /\ UNCHANGED <<api_key, session_keys, messages, stage, log_data, symptoms_to_query,
                   user_input, current_question_context, provider_calls, last, cuts, text>>

NextScan == Scan

SpecScan == InitScan /\ [][NextScan]_vars

----------------------------------------------------------------------------
\* Vocabulary of the properties, written from the positions of the
\* characters and independently of the operators above.

\* phrase occurs in t at some position, letters compared without case
OccursAnyCase(phrase, t) ==
    \E i \in 1..Len(t) :
        /\ i + Len(phrase) - 1 <= Len(t)
        /\ \A j \in 1..Len(phrase) : LowerChar(t[i + j - 1]) = phrase[j]

HasCriticalKeyword(t) == \E k \in CRITICAL_SYMPTOMS : OccursAnyCase(k, t)

Mentions(symptom, t) == OccursAnyCase(SYMPTOM_SPELLING[symptom], t)

\* the catalog keys mentioned in t, in catalog order
MentionedSymptoms(t) ==
    (IF Mentions("headache", t) THEN <<"headache">> ELSE <<>>)
      \o (IF Mentions("fever", t) THEN <<"fever">> ELSE <<>>)
      \o (IF Mentions("cough", t) THEN <<"cough">> ELSE <<>>)

\* the questions of the symptoms, symptom after symptom
RECURSIVE QuestionsOf(_)
QuestionsOf(symptoms) ==
    IF symptoms = <<>> THEN <<>>
    ELSE LET front == SubSeq(symptoms, 1, Len(symptoms) - 1)
             s     == symptoms[Len(symptoms)]
         IN  QuestionsOf(front)
               \o [i \in 1..Len(SYMPTOM_QUESTIONS[s]) |-> <<s, SYMPTOM_QUESTIONS[s][i]>>]

RECURSIVE QuestionCount(_)
QuestionCount(symptoms) ==
    IF symptoms = <<>> THEN 0
    ELSE Len(SYMPTOM_QUESTIONS[Head(symptoms)]) + QuestionCount(Tail(symptoms))

\* the index of the last user message of the log (0 if there is none)
LastUserIndex ==
    LET idx == {i \in DOMAIN messages : messages[i].role = "user"}
    IN  IF idx = {} THEN 0 ELSE CHOOSE i \in idx : \A j \in idx : j <= i

\* the assistant messages that follow the last user message
TurnOutput == SubSeq(messages, LastUserIndex + 1, Len(messages))

\* the last script run handled a user message to its last line, and found
\* the session in stage st
TurnFrom(st) == last.op = "turn" /\ last.stage = st

\* the last script run gave the message user_input to handle_chat_input,
\* whether it then ran to its last line or was ended on the way
Handled == last.op = "turn" \/ (last.op = "cut" /\ last.at # "app.py:110")

HandledFrom(st) == Handled /\ last.stage = st

IsQuestion(m) ==
    /\ m.role = "assistant"
    /\ \E s \in DOMAIN SYMPTOM_QUESTIONS, i \in 1..2 :
          i <= Len(SYMPTOM_QUESTIONS[s]) /\ m.content = SYMPTOM_QUESTIONS[s][i]

IsSection(m, header) ==
    /\ m.role = "assistant"
    /\ Len(m.content) >= 2
    /\ SubSeq(m.content, 1, 2) = header \o <<"\n">>

\* the text a section shows under its header
SectionBody(m) == SubSeq(m.content, 3, Len(m.content))

Escalation == Assistant(get_critical_symptom_response)

Escalated == \E i \in DOMAIN messages : messages[i] = Escalation

----------------------------------------------------------------------------
\* C1: a turn whose message contains a critical keyword (in any case), in
\* Greeting or in CollectingDetails, emits exactly one assistant message, the
\* fixed escalation message, and ends in stage Done.
C1_EscalationTurn ==
    (Handled /\ HasCriticalKeyword(user_input)) =>
        /\ TurnOutput = <<Escalation>>
        /\ stage = "done"

\* C2: in CollectingDetails every non-critical answer is appended verbatim to
\* log_data.details as a (question, answer) pair under the symptom of the
\* question most recently emitted.
C2_AnswerLogged ==
    (TurnFrom("collecting_details") /\ cuts = 0 /\ ~HasCriticalKeyword(user_input)) =>
        LET asked == messages[LastUserIndex - 1].content
        IN  \E s \in DOMAIN SYMPTOM_QUESTIONS :
              /\ \E i \in DOMAIN SYMPTOM_QUESTIONS[s] : SYMPTOM_QUESTIONS[s][i] = asked
              /\ s \in DOMAIN log_data.details
              /\ log_data.details[s] # <<>>
              /\ log_data.details[s][Len(log_data.details[s])]
                    = [question |-> asked, answer |-> user_input]

\* C3: a non-critical answer that finds the queue empty ends the session in
\* that turn, and the turn appends the summary section, the advice section
\* and the closing message, in this order.
C3_FinalTurn ==
    [][ ( /\ stage = "collecting_details"
          /\ symptoms_to_query = <<>>
          /\ Handled'
          /\ ~HasCriticalKeyword(user_input') )
        => ( /\ stage' = "done"
             /\ Len(messages') = Len(messages) + 4
             /\ messages'[Len(messages) + 1] = User(user_input')
             /\ IsSection(messages'[Len(messages) + 2], summary_header)
             /\ IsSection(messages'[Len(messages) + 3], advice_header)
             /\ messages'[Len(messages) + 4] = Assistant(ClosingMessage) ) ]_vars

\* C4: in Greeting a message with no catalog key and no critical keyword
\* leaves the stage at Greeting, the queue and the initial symptoms empty,
\* and emits exactly the clarification prompt, turn after turn.
C4_Clarification ==
    ( /\ HandledFrom("greeting")
      /\ ~HasCriticalKeyword(user_input)
      /\ MentionedSymptoms(user_input) = <<>> )
    => ( /\ stage = "greeting"
         /\ symptoms_to_query = <<>>
         /\ log_data.initial_symptoms = <<>>
         /\ TurnOutput = <<Assistant(ClarificationPrompt)>> )

\* C5: in Greeting, for a non-critical message, initial_symptoms is the list
\* of catalog keys that occur in the lower-cased message, in catalog order;
\* the queue built is the concatenation of their questions (4 questions for
\* headache plus fever); if it is not empty the stage becomes
\* CollectingDetails and its first question is the one emitted.
C5_Intake ==
    (HandledFrom("greeting") /\ ~HasCriticalKeyword(user_input)) =>
        LET built == QuestionsOf(MentionedSymptoms(user_input))
        IN  /\ log_data.initial_symptoms = MentionedSymptoms(user_input)
            /\ Len(built) = QuestionCount(log_data.initial_symptoms)
            /\ (log_data.initial_symptoms = <<"headache", "fever">> => Len(built) = 4)
            /\ (built = <<>> => symptoms_to_query = <<>>)
            /\ (built # <<>> =>
                  /\ stage = "collecting_details"
                  /\ TurnOutput = <<Assistant(built[1][2])>>
                  /\ <<built[1]>> \o symptoms_to_query = built)

\* a provider call that fails: it raises, answers without text, or answers ""
Failed(outcome) ==
    \/ outcome.kind \in {"raises", "no_text"}
    \/ outcome.kind = "text" /\ outcome.text = <<>>

\* C6: whenever a provider call of the Summary transition fails, the text
\* emitted for that call is one of the two fixed fallback strings, and the
\* turn ends in stage Done.
C6_FallbackOnFailure ==
    (last.op = "turn" /\ cuts = 0 /\ provider_calls # <<>>) =>
        /\ stage = "done"
        /\ Len(TurnOutput) = 3
        /\ \A n \in 1..2 :
              Failed(provider_calls[n].outcome) =>
                  SectionBody(TurnOutput[n]) \in {ErrorFallback, NoTextFallback}

\* C7: a reset from any stage leaves stage Greeting, an empty queue, an empty
\* log and a message log holding only the greeting; nothing of the prior
\* session remains in the state.
C7_ResetIsFresh ==
    last.op = "reset" =>
        /\ stage = "greeting"
        /\ symptoms_to_query = <<>>
        /\ log_data = [initial_symptoms |-> <<>>, details |-> <<>>]
        /\ messages = <<Assistant(GreetingMessage)>>
        /\ session_keys = {"log_data", "symptoms_to_query", "messages", "stage"}
        /\ user_input = None
        /\ current_question_context = None
        /\ provider_calls = <<>>

\* a reset in the middle of the follow-up questions
C7_Witness ==
    /\ last.op = "reset"
    /\ last.stage = "collecting_details"
    /\ stage = "greeting"

\* a reset of a session that had ended
C7_WitnessDone ==
    /\ last.op = "reset"
    /\ last.stage = "done"
    /\ stage = "greeting"

\* the script run that answers a user message typed in stage Done
DoneTurn ==
    /\ UserTurn
    /\ messages'[Len(messages')] = Assistant(ConcludedMessage)
    /\ stage' = "done"

\* C8: in Done a user text message makes the system emit the fixed
\* "session concluded" message, and the stage stays Done.
C8_DoneAnswered == stage = "done" => ENABLED DoneTurn

\* C9: once a turn has escalated the stage is Done until a reset: no later
\* message of the log is a follow-up question or a summary or advice section.
C9_EscalationFinal ==
    \A i \in DOMAIN messages :
        messages[i] = Escalation =>
            /\ stage = "done"
            /\ ~ENABLED UserTurn
            /\ ~ENABLED CutTurn
            /\ \A j \in DOMAIN messages :
                  j > i => /\ ~IsQuestion(messages[j])
                           /\ ~IsSection(messages[j], summary_header)
                           /\ ~IsSection(messages[j], advice_header)

\* an escalated session that still has turns left within the bound
C9_Witness ==
    /\ Escalated
    /\ stage = "done"
    /\ NumUserTurns < MaxTurns
    /\ symptoms_to_query # <<>>

\* C10: check_for_critical_symptoms(text) is true exactly when the text holds
\* a critical keyword at some position, letters compared without case; the
\* call changes no session state, and two calls on a text agree.
C10_ScanIffKeyword ==
    /\ \A n \in DOMAIN scans : scans[n] = HasCriticalKeyword(text)
    /\ Session = fresh_session

\* a keyword in capitals, behind a filler, scanned twice
C10_Witness ==
    /\ Len(scans) = 2
    /\ scans[1]
    /\ scans[2]
    /\ text # lower(text)
    /\ text[1] \in PadChars

\* a keyword cut short is not a keyword
C10_WitnessNegative ==
    /\ Len(scans) = 2
    /\ ~scans[1]
    /\ \E k \in CRITICAL_SYMPTOMS : OccursAnyCase(Tail(k), text)

----------------------------------------------------------------------------
\* the index of the intake message: the first user message of the log that
\* holds no critical keyword and mentions a catalog key (0 if there is none)
IntakeIndex ==
    LET idx == {i \in DOMAIN messages :
                   /\ messages[i].role = "user"
                   /\ ~HasCriticalKeyword(messages[i].content)
                   /\ MentionedSymptoms(messages[i].content) # <<>>}
    IN  IF idx = {} THEN 0 ELSE CHOOSE i \in idx : \A j \in idx : i <= j

\* the answers given so far to the follow-up questions
Answers ==
    LET idx == {i \in DOMAIN messages : messages[i].role = "user" /\ i > IntakeIndex}
    IN  {messages[i].content : i \in idx}

\* C11: the input handed to the advice call is made of the initial symptoms
\* alone: it is the list of catalog keys mentioned in the intake message,
\* whatever the answers to the follow-up questions were.
C11_AdviceInput ==
    \A n \in DOMAIN provider_calls :
        provider_calls[n].prompt.instructions = "advise" =>
            /\ IntakeIndex > 0
            /\ provider_calls[n].prompt.data
                  = MentionedSymptoms(messages[IntakeIndex].content)

\* an advice call after two different answers, one of which names a symptom
C11_Witness ==
    /\ Len(provider_calls) = 2
    /\ provider_calls[2].prompt.instructions = "advise"
    /\ provider_calls[2].prompt.data = <<"cough">>
    /\ Cardinality(Answers) = 2
    /\ \E a \in Answers : Mentions("fever", a)

\* is p a prefix of q
IsPrefix(p, q) == Len(p) <= Len(q) /\ SubSeq(q, 1, Len(p)) = p

\* C12: between two resets no script run removes or changes a recorded
\* initial symptom or a recorded (question, answer) pair; runs only add to
\* the log.
C12_LogGrows ==
    [][ last'.op # "reset" =>
          /\ IsPrefix(log_data.initial_symptoms, log_data'.initial_symptoms)
          /\ \A s \in DOMAIN log_data.details :
                /\ s \in DOMAIN log_data'.details
                /\ IsPrefix(log_data.details[s], log_data'.details[s]) ]_vars

\* an answer that names other symptoms, given while the log holds cough
C12_Witness ==
    /\ TurnFrom("collecting_details")
    /\ log_data.initial_symptoms = <<"cough">>
    /\ Mentions("fever", user_input)
    /\ ~HasCriticalKeyword(user_input)

\* the elements of a sequence are pairwise different
NoDuplicates(q) == \A i, j \in DOMAIN q : q[i] = q[j] => i = j

\* the number of places of t at which phrase occurs, letters compared without case
MentionCount(phrase, t) ==
    Cardinality({i \in 1..Len(t) :
                    /\ i + Len(phrase) - 1 <= Len(t)
                    /\ \A j \in 1..Len(phrase) : LowerChar(t[i + j - 1]) = phrase[j]})

\* C13: a symptom whose key occurs more than once in the greeting message is
\* detected once: initial_symptoms never holds a duplicate, and the queue
\* built from it (the question popped by the run and the questions left)
\* holds each question of the symptom exactly once.
C13_DetectedOnce ==
    /\ NoDuplicates(log_data.initial_symptoms)
    /\ NoDuplicates(symptoms_to_query)
    /\ (HandledFrom("greeting") /\ ~HasCriticalKeyword(user_input)) =>
          LET popped == IF current_question_context = None
                        THEN <<>> ELSE <<current_question_context>>
              built  == popped \o symptoms_to_query
          IN  \A s \in DOMAIN SYMPTOM_QUESTIONS :
                  Mentions(s, user_input) =>
                      \A n \in DOMAIN SYMPTOM_QUESTIONS[s] :
                          Cardinality({i \in DOMAIN built :
                              built[i] = <<s, SYMPTOM_QUESTIONS[s][n]>>}) = 1

\* a greeting message that names cough twice
C13_Witness ==
    /\ TurnFrom("greeting")
    /\ MentionCount(SYMPTOM_SPELLING["cough"], user_input) = 2
    /\ log_data.initial_symptoms = <<"cough">>
    /\ Len(symptoms_to_query) = 1

\* C14: without a key no session starts: the stage is never initialized, no
\* greeting is produced and no user message is ever handled, so the failure
\* cannot occur in the middle of a conversation.
C14_NoSessionWithoutKey ==
    ~api_key =>
        /\ "stage" \notin session_keys
        /\ stage = Unset
        /\ messages = <<>>
        /\ session_keys = {}
        /\ last.op = "start"
        /\ ~ENABLED UserTurn
        /\ ~ENABLED CutTurn

\* the script stopped at its import line
C14_Witness ==
    /\ ~api_key
    /\ session_keys = {}
    /\ last.op = "start"

\* C15: a detail answer handled by an agent that has no pending-question
\* context skips the log step without error: the log is unchanged, nothing
\* but the regular output is emitted, and the turn pops and emits the next
\* question or, with an empty queue, runs the Summary transition.
C15_MissingContextSkipped ==
    [][ ( /\ stage = "collecting_details"
          /\ new_agent(Session).current_question_context = None
          /\ Handled'
          /\ ~HasCriticalKeyword(user_input') )
        => ( /\ log_data' = log_data
             /\ messages'[Len(messages) + 1] = User(user_input')
             /\ symptoms_to_query # <<>> =>
                   /\ messages' = messages \o <<User(user_input'),
                                                Assistant(Head(symptoms_to_query)[2])>>
                   /\ symptoms_to_query' = Tail(symptoms_to_query)
                   /\ stage' = "collecting_details"
             /\ symptoms_to_query = <<>> =>
                   /\ Len(messages') = Len(messages) + 4
                   /\ IsSection(messages'[Len(messages) + 2], summary_header)
                   /\ IsSection(messages'[Len(messages) + 3], advice_header)
                   /\ messages'[Len(messages) + 4] = Assistant(ClosingMessage)
                   /\ Len(provider_calls') = 2
                   /\ stage' = "done" ) ]_vars

\* C16: between turns the stage is Greeting, CollectingDetails or Done and
\* never Summary, also when a provider call of the Summary transition fails.
C16_SummaryTransient ==
    /\ stage # "summary"
    /\ api_key => stage \in {"greeting", "collecting_details", "done"}

\* the follow-up questions emitted so far, in the order of the log
EmittedQuestions ==
    LET asked == SelectSeq(messages, IsQuestion)
    IN  [i \in DOMAIN asked |-> asked[i].content]

\* C17: in a session without escalation the follow-up questions emitted are
\* the queue built at intake, each once and in queue order: at every turn
\* boundary the questions emitted so far followed by the questions still
\* queued are the questions built at intake.
C17_QueueFifo ==
    ~Escalated =>
        LET built == QuestionsOf(log_data.initial_symptoms)
            n     == Len(EmittedQuestions)
        IN  /\ n + Len(symptoms_to_query) = Len(built)
            /\ \A i \in 1..n : EmittedQuestions[i] = built[i][2]
            /\ \A i \in DOMAIN symptoms_to_query : symptoms_to_query[i] = built[n + i]
            /\ (stage = "done" => n = Len(built))

\* the number of user messages after the intake message
TurnsAfterIntake ==
    Cardinality({i \in DOMAIN messages : messages[i].role = "user" /\ i > IntakeIndex})

\* C18: after a greeting turn that builds N >= 1 questions, with non-critical
\* messages and no reset, the stage is CollectingDetails at every turn
\* boundary before the N-th following turn and Done at the end of it.
C18_DoneAfterNTurns ==
    (IntakeIndex > 0 /\ Handled /\ \A a \in Answers : ~HasCriticalKeyword(a)) =>
        LET N == QuestionCount(MentionedSymptoms(messages[IntakeIndex].content))
        IN  /\ N >= 1
            /\ (TurnsAfterIntake < N => stage = "collecting_details")
            /\ (TurnsAfterIntake = N => stage = "done")

\* C19: a script run whose message holds a critical keyword leaves the log
\* and the queue exactly as they were and changes only the messages and the
\* stage: a greeting message with a known symptom and a critical keyword
\* records no symptom and builds no queue, an escalation in
\* CollectingDetails logs no answer and pops no question.
C19_EscalationFrame ==
    [][ (last'.op \in {"turn", "cut"} /\ HasCriticalKeyword(user_input')) =>
          /\ log_data' = log_data
          /\ symptoms_to_query' = symptoms_to_query
          /\ \/ /\ last'.op = "turn"
                /\ messages' = messages \o <<User(user_input'), Escalation>>
                /\ stage' = "done"
             \/ /\ last'.op = "cut"
                /\ messages' \in {messages, Append(messages, User(user_input'))}
                /\ stage' = stage ]_vars

\* a greeting message with a symptom and a keyword: nothing recorded
C19_Witness ==
    /\ TurnFrom("greeting")
    /\ HasCriticalKeyword(user_input)
    /\ Mentions("headache", user_input)
    /\ log_data.initial_symptoms = <<>>
    /\ symptoms_to_query = <<>>
    /\ stage = "done"

\* an escalation in CollectingDetails: the queue keeps its questions
C19_WitnessCollecting ==
    /\ TurnFrom("collecting_details")
    /\ HasCriticalKeyword(user_input)
    /\ Len(symptoms_to_query) = 3
    /\ log_data.initial_symptoms = <<"headache", "fever">>

\* C20: in Done no user message is accepted or processed: no script run that
\* takes a message is enabled, and the only step that leaves a Done state is
\* the reset, so the stage, the log, the queue and the messages stay as they
\* are until then.
C20_DoneOnlyReset ==
    /\ [](stage = "done" => ~ENABLED UserTurn /\ ~ENABLED CutTurn /\ ENABLED Reset)
    /\ [][stage = "done" => last'.op = "reset"]_vars

\* a session that ran to its end with turns left within the bound
C20_Witness ==
    /\ stage = "done"
    /\ ~Escalated
    /\ Len(provider_calls) = 2
    /\ NumUserTurns < MaxTurns

====
